---------------------------- MODULE Spec2Model ----------------------------
(***************************************************************************)
(* Registration / payment-confirmation workflow of the inspiringshereen    *)
(* backend.  The repository holds two alternative server.js files:         *)
(*   - the Cashfree variant (src/unnamed/part_000): registrations keyed by *)
(*     a random reference id, confirmation by status poll, webhook or the  *)
(*     legacy confirm-payment endpoint;                                    *)
(*   - the Razorpay variant (src/server.js): user data keyed by the        *)
(*     gateway order id, confirmation by HMAC-verified verify-payment.     *)
(* A running process is one of the two; `variant` is fixed by Init.        *)
(*                                                                         *)
(* An async handler runs atomically up to each `await`; the requests that  *)
(* are suspended at an await are the elements of the bag `inflight`.       *)
(* `resp` is the HTTP response written by the last step (NoResp if the     *)
(* step wrote none).                                                       *)
(***************************************************************************)
EXTENDS Integers, Sequences, FiniteSets, Bags, TLC

\* ------------------------------------------------------------------ bounds
\* requests received in one run
MaxRequests == 3
\* Date.now() takes the values 0..MaxClock
MaxClock == 1

\* ------------------------------------------------------------------ values
\* JavaScript undefined / missing field, and the empty string
Undefined == "undefined"
Empty == ""
\* !x for the string-valued request fields
Falsy(x) == x \in {Undefined, Empty}

\* outcomes of crypto.randomBytes(6).toString('hex'): 2^48 values, here two
RefIds == {"r1", "r2"}
\* a reference id that no registration has (a client may send anything)
RefInputs == RefIds \cup {"r9", Undefined}

\* an order id `ORDER_${referenceId}_${Date.now()}` is the pair <<ref, time>>;
\* <<>> stands for an undefined orderId
NoOrder == <<>>
OrderIdOf(referenceId, t) == <<referenceId, t>>
OrderIds == {OrderIdOf(r, t) : r \in RefIds, t \in 0..MaxClock}
\* order ids a client or the gateway may name: the above, a foreign one, none
OrderInputs == OrderIds \cup {OrderIdOf("r9", 0), NoOrder}

\* transaction ids: the gateway's cf_order_id, an order id, a client's value
NoTxn == <<>>
CfOrderId == <<"cf">>
ClientTxn == <<"T">>
TruthyOr(a, b) == IF a # NoTxn THEN a ELSE b

\* register bodies {fullName, email, phone}
Person(n, e, p) == [fullName |-> n, email |-> e, phone |-> p]
ValidBodies == {Person("A", "a@x.com", "1"), Person("B", "b@x.com", "2")}
InvalidBodies == {Person(Empty, "a@x.com", "1"), Person("A", Undefined, "1"),
                  Person("A", "a@x.com", Empty),
                  Person(Undefined, Undefined, Undefined)}
RegisterBodies == ValidBodies \cup InvalidBodies
NoBody == Person(Undefined, Undefined, Undefined)

VARIABLES
    variant,            \* "cashfree" | "razorpay": which server.js runs
    credentials,        \* Cashfree: CASHFREE_APP_ID and CASHFREE_SECRET_KEY set
    now,                \* Date.now()
    heap,               \* the registration objects, by allocation number
    registrations,      \* Map referenceId -> object, in insertion order
    confirmedPayments,  \* Set of reference ids
    userMails,          \* registrant mails accepted by the transporter, per object
    adminMails,         \* admin mails accepted by the transporter, per object
    inflight,           \* bag of the requests suspended at an await
    resp,               \* response written by the last step
    requests,           \* requests received so far
    successfulPayments, \* Razorpay: Set of payment ids
    userDataStore,      \* Razorpay: Map order id -> {fullName, email, phone}
    gatewayOrders,      \* Razorpay: orders the gateway has created so far
    matched             \* Razorpay: payment ids some verify-payment request
                        \* carried a matching signature for (history)

cfVars == <<credentials, heap, registrations, confirmedPayments>>
rzVars == <<successfulPayments, userDataStore, gatewayOrders, matched>>
vars == <<variant, credentials, now, heap, registrations, confirmedPayments,
          userMails, adminMails, inflight, resp, requests, successfulPayments,
          userDataStore, gatewayOrders, matched>>

\* ------------------------------------------------------------ JS Map helpers
\* a Map is the sequence of its entries [key, val] in insertion order
MapKeys(m) == {m[i].key : i \in 1..Len(m)}
MapHas(m, k) == k \in MapKeys(m)
MapGet(m, k) == LET i == CHOOSE j \in 1..Len(m) : m[j].key = k IN m[i].val
\* Map.prototype.set: an existing key keeps its place, a new key goes last
MapSet(m, k, v) ==
    IF MapHas(m, k)
    THEN [i \in 1..Len(m) |-> IF m[i].key = k THEN [key |-> k, val |-> v] ELSE m[i]]
    ELSE Append(m, [key |-> k, val |-> v])

\* registrations.get(referenceId): the record stored under a reference id
RecordIn(objects, map, referenceId) == objects[MapGet(map, referenceId)]
Record(referenceId) == RecordIn(heap, registrations, referenceId)

\* ------------------------------------------------------------- responses
\* kind: the endpoint answering; "none", status 0: the step wrote no response
NoResp == [kind |-> "none", status |-> 0, referenceId |-> Undefined,
           orderId |-> NoOrder, success |-> FALSE]
Reply(kind, status) == [NoResp EXCEPT !.kind = kind, !.status = status]

\* ------------------------------------------------------------- requests
\* a suspended request: its handler, the await it is at, and its locals
\* (referenceId holds razorpay_payment_id in verify-payment)
Request(kind, pc, referenceId, orderId, userData) ==
    [kind |-> kind, pc |-> pc, referenceId |-> referenceId,
     orderId |-> orderId, userData |-> userData, body |-> NoBody]
Suspend(r) == inflight (+) SetToBag({r})
Resume(r) == inflight (-) SetToBag({r})
\* one more request arrives
Receive == requests < MaxRequests /\ requests' = requests + 1

\* (mutant: the phone is not checked)
RequiredFieldMissingNoPhone(body) ==
    Falsy(body.fullName) \/ Falsy(body.email)

\* `!fullName || !email || !phone`
RequiredFieldMissing(body) ==
    Falsy(body.fullName) \/ Falsy(body.email) \/ Falsy(body.phone)

\* =========================================================== Cashfree variant
Cashfree == variant = "cashfree"

\* the object register stores: paymentConfirmed false, no orderId, no transactionId
NewRegistration(body, timestamp) ==
    [fullName |-> body.fullName, email |-> body.email, phone |-> body.phone,
     timestamp |-> timestamp, paymentConfirmed |-> FALSE,
     transactionId |-> NoTxn, orderId |-> NoOrder]

\* (mutant: register takes the identifier it stores out of the confirmed set)
RegisterUnconfirming(body) ==
    /\ Cashfree
    /\ Receive
    /\ \/ /\ RequiredFieldMissing(body)
          /\ resp' = Reply("register", 400)
          /\ UNCHANGED <<heap, registrations, confirmedPayments>>
       \/ /\ ~RequiredFieldMissing(body)
          /\ \E referenceId \in RefIds :
               /\ heap' = Append(heap, NewRegistration(body, now))
               /\ registrations' = MapSet(registrations, referenceId, Len(heap) + 1)
               /\ confirmedPayments' = confirmedPayments \ {referenceId}
               /\ resp' = [Reply("register", 200) EXCEPT !.success = TRUE,
                                                !.referenceId = referenceId]
    /\ UNCHANGED <<variant, credentials, now, userMails, adminMails, inflight,
                   rzVars>>

\* POST /api/register: no await, one step
Register(body) ==
    /\ Cashfree
    /\ Receive
    /\ \/ /\ RequiredFieldMissing(body)
          /\ resp' = Reply("register", 400)
          /\ UNCHANGED <<heap, registrations>>
       \/ /\ ~RequiredFieldMissing(body)
          /\ \E referenceId \in RefIds :
               /\ heap' = Append(heap, NewRegistration(body, now))
               /\ registrations' = MapSet(registrations, referenceId, Len(heap) + 1)
               /\ resp' = [Reply("register", 200) EXCEPT !.success = TRUE,
                                                !.referenceId = referenceId]
    /\ UNCHANGED <<variant, credentials, now, confirmedPayments, userMails,
                   adminMails, inflight, rzVars>>

\* POST /api/create-payment-order, up to `await axios.post`
CreatePaymentOrder(referenceId) ==
    /\ Cashfree
    /\ Receive
    /\ \/ /\ Falsy(referenceId)
          /\ resp' = Reply("create-payment-order", 400)
          /\ UNCHANGED inflight
       \/ /\ ~Falsy(referenceId)
          /\ ~MapHas(registrations, referenceId)
          /\ resp' = Reply("create-payment-order", 404)
          /\ UNCHANGED inflight
       \/ /\ ~Falsy(referenceId)
          /\ MapHas(registrations, referenceId)
          /\ ~credentials
          /\ resp' = Reply("create-payment-order", 500)
          /\ UNCHANGED inflight
       \/ /\ ~Falsy(referenceId)
          /\ MapHas(registrations, referenceId)
          /\ credentials
          /\ inflight' = Suspend(Request("create-payment-order", "gateway",
                             referenceId, OrderIdOf(referenceId, now),
                             MapGet(registrations, referenceId)))
          /\ resp' = NoResp
    /\ UNCHANGED <<variant, now, cfVars, userMails, adminMails, rzVars>>

\* (mutant: `userData.orderId = orderId` is forgotten)
CreatePaymentOrderReturnNoStore(r, ok) ==
    /\ Cashfree
    /\ UNCHANGED requests
    /\ r \in BagToSet(inflight)
    /\ r.kind = "create-payment-order"
    /\ inflight' = Resume(r)
    /\ IF ok
       THEN /\ registrations' = MapSet(registrations, r.referenceId, r.userData)
            /\ resp' = [Reply("create-payment-order", 200) EXCEPT
                            !.success = TRUE, !.orderId = r.orderId]
            /\ UNCHANGED heap
       ELSE /\ resp' = Reply("create-payment-order", 500)
            /\ UNCHANGED <<heap, registrations>>
    /\ UNCHANGED <<variant, credentials, now, confirmedPayments, userMails,
                   adminMails, rzVars>>

\* (mutant: the order id is stored whether or not the gateway call succeeded)
CreatePaymentOrderReturnStoreAlways(r, ok) ==
    /\ Cashfree
    /\ UNCHANGED requests
    /\ r \in BagToSet(inflight)
    /\ r.kind = "create-payment-order"
    /\ inflight' = Resume(r)
    /\ heap' = [heap EXCEPT ![r.userData].orderId = r.orderId]
    /\ registrations' = MapSet(registrations, r.referenceId, r.userData)
    /\ resp' = IF ok THEN [Reply("create-payment-order", 200) EXCEPT
                              !.success = TRUE, !.orderId = r.orderId]
               ELSE Reply("create-payment-order", 500)
    /\ UNCHANGED <<variant, credentials, now, confirmedPayments, userMails,
                   adminMails, rzVars>>

\* create-payment-order after the await: the gateway accepted the order, or
\* axios.post threw
CreatePaymentOrderReturn(r, ok) ==
    /\ Cashfree
    /\ UNCHANGED requests
    /\ r \in BagToSet(inflight)
    /\ r.kind = "create-payment-order"
    /\ inflight' = Resume(r)
    /\ IF ok
       THEN /\ heap' = [heap EXCEPT ![r.userData].orderId = r.orderId]
            /\ registrations' = MapSet(registrations, r.referenceId, r.userData)
            /\ resp' = [Reply("create-payment-order", 200) EXCEPT
                            !.success = TRUE, !.orderId = r.orderId]
       ELSE /\ resp' = Reply("create-payment-order", 500)
            /\ UNCHANGED <<heap, registrations>>
    /\ UNCHANGED <<variant, credentials, now, confirmedPayments, userMails,
                   adminMails, rzVars>>

\* (mutant: the scan takes the first entry whatever its orderId)
FindFirstIn(objects, map, orderId) ==
    IF map = <<>> THEN Undefined ELSE map[1].key

\* the reverse scan `for (const [key, value] of registrations.entries())`:
\* the key of the first entry whose orderId === orderId, or Undefined (null)
FindByOrderIdIn(objects, map, orderId) ==
    LET hits == {i \in 1..Len(map) : objects[map[i].val].orderId = orderId}
    IN IF hits = {} THEN Undefined
       ELSE map[CHOOSE i \in hits : \A j \in hits : i <= j].key
FindByOrderId(orderId) == FindByOrderIdIn(heap, registrations, orderId)

\* (mutant: confirmedPayments.add is forgotten)
ConfirmTransitionWithoutAdd(others, kind, referenceId, transactionId) ==
    LET userData == MapGet(registrations, referenceId) IN
    /\ heap' = [heap EXCEPT ![userData].paymentConfirmed = TRUE,
                            ![userData].transactionId = transactionId]
    /\ registrations' = MapSet(registrations, referenceId, userData)
    /\ UNCHANGED confirmedPayments
    /\ inflight' = others (+) SetToBag({Request(kind, "mail-user",
                                           referenceId, NoOrder, userData)})
    /\ resp' = NoResp

\* the confirmation transition up to the first `await transporter.sendMail`:
\* mark the record, store it, add it to the confirmed set, start the mails
ConfirmTransition(others, kind, referenceId, transactionId) ==
    LET userData == MapGet(registrations, referenceId) IN
    /\ heap' = [heap EXCEPT ![userData].paymentConfirmed = TRUE,
                            ![userData].transactionId = transactionId]
    /\ registrations' = MapSet(registrations, referenceId, userData)
    /\ confirmedPayments' = confirmedPayments \cup {referenceId}
    /\ inflight' = others (+) SetToBag({Request(kind, "mail-user",
                                           referenceId, NoOrder, userData)})
    /\ resp' = NoResp

\* GET /api/check-payment-status, up to `await axios.get`
CheckPaymentStatus(orderId) ==
    /\ Cashfree
    /\ Receive
    /\ \/ /\ orderId = NoOrder
          /\ resp' = Reply("check-payment-status", 400)
          /\ UNCHANGED inflight
       \/ /\ orderId # NoOrder
          /\ ~credentials
          /\ resp' = Reply("check-payment-status", 500)
          /\ UNCHANGED inflight
       \/ /\ orderId # NoOrder
          /\ credentials
          /\ inflight' = Suspend(Request("check-payment-status", "gateway",
                                         Undefined, orderId, 0))
          /\ resp' = NoResp
    /\ UNCHANGED <<variant, now, cfVars, userMails, adminMails, rzVars>>

\* the gateway's answers to GET /orders/{orderId}
OrderStatuses == {"PAID", "ACTIVE"}
CfOrderIds == {NoTxn, CfOrderId}

\* check-payment-status after the await: axios.get threw, or the gateway
\* answered {order_status, cf_order_id, order_id: the order asked for}
CheckPaymentStatusReturn(r, ok, order_status, cf_order_id) ==
    /\ Cashfree
    /\ UNCHANGED requests
    /\ r \in BagToSet(inflight)
    /\ r.kind = "check-payment-status"
    /\ r.pc = "gateway"
    /\ \/ /\ ~ok
          /\ inflight' = Resume(r)
          /\ resp' = Reply("check-payment-status", 500)
          /\ UNCHANGED <<heap, registrations, confirmedPayments>>
       \/ /\ ok
          /\ order_status = "PAID"
          /\ FindByOrderId(r.orderId) # Undefined
          /\ ConfirmTransition(Resume(r), "check-payment-status",
                               FindByOrderId(r.orderId),
                               TruthyOr(cf_order_id, r.orderId))
       \/ /\ ok
          /\ ~(order_status = "PAID" /\ FindByOrderId(r.orderId) # Undefined)
          /\ inflight' = Resume(r)
          /\ resp' = [Reply("check-payment-status", 200) EXCEPT !.success = TRUE]
          /\ UNCHANGED <<heap, registrations, confirmedPayments>>
    /\ UNCHANGED <<variant, credentials, now, userMails, adminMails, rzVars>>

\* (mutant: a failed mail is reported to the client as an error)
AfterMailsError(r) == Reply(r.kind, 500)

\* what the handler answers once sendConfirmationEmails has returned
AfterMails(r) ==
    IF r.kind = "confirm-payment"
    THEN [Reply(r.kind, 200) EXCEPT !.referenceId = r.referenceId, !.success = TRUE]
    ELSE [Reply(r.kind, 200) EXCEPT !.success = TRUE]

\* sendConfirmationEmails, `await transporter.sendMail(userMailOptions)`:
\* sent, or it threw and the function returns false (the handler then answers)
SendUserMail(r, ok) ==
    /\ Cashfree
    /\ UNCHANGED requests
    /\ r \in BagToSet(inflight)
    /\ r.pc = "mail-user"
    /\ IF ok
       THEN /\ userMails' = [userMails EXCEPT ![r.userData] = @ + 1]
            /\ inflight' = Resume(r) (+) SetToBag({[r EXCEPT !.pc = "mail-admin"]})
            /\ resp' = NoResp
       ELSE /\ inflight' = Resume(r)
            /\ resp' = AfterMails(r)
            /\ UNCHANGED userMails
    /\ UNCHANGED <<variant, now, cfVars, adminMails, rzVars>>

\* (mutant: when the admin mail fails the handler never answers)
SendAdminMailUnanswered(r, ok) ==
    /\ Cashfree
    /\ UNCHANGED requests
    /\ r \in BagToSet(inflight)
    /\ r.pc = "mail-admin"
    /\ adminMails' = IF ok THEN [adminMails EXCEPT ![r.userData] = @ + 1]
                     ELSE adminMails
    /\ inflight' = IF ok THEN Resume(r)
                   ELSE Resume(r) (+) SetToBag({[r EXCEPT !.pc = "lost"]})
    /\ resp' = IF ok THEN AfterMails(r) ELSE NoResp
    /\ UNCHANGED <<variant, now, cfVars, userMails, rzVars>>

\* sendConfirmationEmails, `await transporter.sendMail(adminMailOptions)`;
\* either way the function returns and the handler answers
SendAdminMail(r, ok) ==
    /\ Cashfree
    /\ UNCHANGED requests
    /\ r \in BagToSet(inflight)
    /\ r.pc = "mail-admin"
    /\ adminMails' = IF ok THEN [adminMails EXCEPT ![r.userData] = @ + 1]
                     ELSE adminMails
    /\ inflight' = Resume(r)
    /\ resp' = AfterMails(r)
    /\ UNCHANGED <<variant, now, cfVars, userMails, rzVars>>

\* (mutant: the identifier is added to the confirmed set before the
\* transaction id is validated)
ConfirmPaymentAddFirst(referenceId, transactionId) ==
    /\ Cashfree
    /\ Receive
    /\ \/ /\ Falsy(referenceId) \/ transactionId = NoTxn
          /\ resp' = Reply("confirm-payment", 400)
          /\ confirmedPayments' =
                IF MapHas(registrations, referenceId)
                THEN confirmedPayments \cup {referenceId} ELSE confirmedPayments
          /\ UNCHANGED <<heap, registrations, inflight>>
       \/ /\ ~(Falsy(referenceId) \/ transactionId = NoTxn)
          /\ ~MapHas(registrations, referenceId)
          /\ resp' = Reply("confirm-payment", 404)
          /\ UNCHANGED <<heap, registrations, confirmedPayments, inflight>>
       \/ /\ ~(Falsy(referenceId) \/ transactionId = NoTxn)
          /\ MapHas(registrations, referenceId)
          /\ ConfirmTransition(inflight, "confirm-payment", referenceId,
                               transactionId)
    /\ UNCHANGED <<variant, credentials, now, userMails, adminMails, rzVars>>

\* (mutant: a registration without an order is not confirmed)
ConfirmPaymentNeedsOrder(referenceId, transactionId) ==
    /\ Cashfree
    /\ Receive
    /\ \/ /\ Falsy(referenceId) \/ transactionId = NoTxn
          /\ resp' = Reply("confirm-payment", 400)
          /\ UNCHANGED <<heap, registrations, confirmedPayments, inflight>>
       \/ /\ ~(Falsy(referenceId) \/ transactionId = NoTxn)
          /\ \/ ~MapHas(registrations, referenceId)
             \/ /\ MapHas(registrations, referenceId)
                /\ Record(referenceId).orderId = NoOrder
          /\ resp' = Reply("confirm-payment", 404)
          /\ UNCHANGED <<heap, registrations, confirmedPayments, inflight>>
       \/ /\ ~(Falsy(referenceId) \/ transactionId = NoTxn)
          /\ MapHas(registrations, referenceId)
          /\ Record(referenceId).orderId # NoOrder
          /\ ConfirmTransition(inflight, "confirm-payment", referenceId,
                               transactionId)
    /\ UNCHANGED <<variant, credentials, now, userMails, adminMails, rzVars>>

\* POST /api/confirm-payment (legacy), up to the first await
ConfirmPayment(referenceId, transactionId) ==
    /\ Cashfree
    /\ Receive
    /\ \/ /\ Falsy(referenceId) \/ transactionId = NoTxn
          /\ resp' = Reply("confirm-payment", 400)
          /\ UNCHANGED <<heap, registrations, confirmedPayments, inflight>>
       \/ /\ ~(Falsy(referenceId) \/ transactionId = NoTxn)
          /\ ~MapHas(registrations, referenceId)
          /\ resp' = Reply("confirm-payment", 404)
          /\ UNCHANGED <<heap, registrations, confirmedPayments, inflight>>
       \/ /\ ~(Falsy(referenceId) \/ transactionId = NoTxn)
          /\ MapHas(registrations, referenceId)
          /\ ConfirmTransition(inflight, "confirm-payment", referenceId,
                               transactionId)
    /\ UNCHANGED <<variant, credentials, now, userMails, adminMails, rzVars>>

\* (mutant: the lookup is made in the registrations instead)
CheckPaymentInRegistrations(reference_id) ==
    /\ Cashfree
    /\ Receive
    /\ resp' = [Reply("check-payment", 200) EXCEPT
                    !.success = MapHas(registrations, reference_id)]
    /\ UNCHANGED <<variant, now, cfVars, userMails, adminMails, inflight, rzVars>>

\* GET /api/check-payment: membership in the confirmed set
CheckPayment(reference_id) ==
    /\ Cashfree
    /\ Receive
    /\ resp' = [Reply("check-payment", 200) EXCEPT
                    !.success = (reference_id \in confirmedPayments)]
    /\ UNCHANGED <<variant, now, cfVars, userMails, adminMails, inflight, rzVars>>

\* webhook bodies: req.body is not an object (body false); an object without
\* data.order; data.order with any of its fields
WebhookBodies ==
    {[body |-> b, order |-> FALSE, order_id |-> NoOrder,
      order_status |-> "ACTIVE", cf_order_id |-> NoTxn] : b \in BOOLEAN}
    \cup [body : {TRUE}, order : {TRUE}, order_id : OrderInputs,
          order_status : OrderStatuses, cf_order_id : CfOrderIds]

\* (mutant: the catch of the webhook handler answers like the other handlers)
WebhookCaughtAs500 == Reply("cashfree-webhook", 500)

\* the catch of the webhook handler: `res.status(200).json({success: false, ..})`
WebhookCaught == Reply("cashfree-webhook", 200)

\* POST /api/cashfree-webhook, up to the first await (the signature check is
\* commented out in the source)
CashfreeWebhook(webhookData) ==
    /\ Cashfree
    /\ Receive
    /\ LET orderId == webhookData.order_id
           paid == /\ webhookData.order
                   /\ webhookData.order_status = "PAID"
                   /\ FindByOrderId(orderId) # Undefined
       IN \/ /\ ~webhookData.body
             \* `webhookData.data` throws a TypeError
             /\ resp' = WebhookCaught
             /\ UNCHANGED <<heap, registrations, confirmedPayments, inflight>>
          \/ /\ webhookData.body
             /\ paid
             /\ ConfirmTransition(inflight, "cashfree-webhook",
                                  FindByOrderId(orderId),
                                  TruthyOr(webhookData.cf_order_id, orderId))
          \/ /\ webhookData.body
             /\ ~paid
             /\ resp' = [Reply("cashfree-webhook", 200) EXCEPT !.success = TRUE]
             /\ UNCHANGED <<heap, registrations, confirmedPayments, inflight>>
    /\ UNCHANGED <<variant, credentials, now, userMails, adminMails, rzVars>>

\* a POST whose req.body is not an object: the destructuring at the top of the
\* handler throws a TypeError and the handler's catch answers 500
PostHandlers == {"register", "create-payment-order", "confirm-payment"}
HandlerThrows(kind) ==
    /\ Cashfree
    /\ Receive
    /\ resp' = Reply(kind, 500)
    /\ UNCHANGED <<variant, now, cfVars, userMails, adminMails, inflight, rzVars>>

\* time passes
Tick ==
    /\ now < MaxClock
    /\ now' = now + 1
    /\ resp' = NoResp
    /\ UNCHANGED <<variant, cfVars, userMails, adminMails, inflight, requests,
                   rzVars>>

NextCashfree ==
    \/ \E kind \in PostHandlers : HandlerThrows(kind)
    \/ \E body \in RegisterBodies : Register(body)
    \/ \E referenceId \in RefInputs : CreatePaymentOrder(referenceId)
    \/ \E r \in BagToSet(inflight), ok \in BOOLEAN : CreatePaymentOrderReturn(r, ok)
    \/ \E orderId \in OrderInputs : CheckPaymentStatus(orderId)
    \/ \E r \in BagToSet(inflight), ok \in BOOLEAN, st \in OrderStatuses,
          cf \in CfOrderIds : CheckPaymentStatusReturn(r, ok, st, cf)
    \/ \E r \in BagToSet(inflight), ok \in BOOLEAN : SendUserMail(r, ok)
    \/ \E r \in BagToSet(inflight), ok \in BOOLEAN : SendAdminMail(r, ok)
    \/ \E referenceId \in RefInputs, transactionId \in {NoTxn, ClientTxn} :
          ConfirmPayment(referenceId, transactionId)
    \/ \E reference_id \in RefInputs : CheckPayment(reference_id)
    \/ \E webhookData \in WebhookBodies : CashfreeWebhook(webhookData)

\* =========================================================== Razorpay variant
Razorpay == variant = "razorpay"

\* order ids are the gateway's: the n-th order it creates is <<"order", n>>
RzOrderId(n) == <<"order", n>>
RzOrderNo(orderId) == orderId[2]
\* order ids a client may name in verify-payment
RzOrderInputs == {RzOrderId(1), RzOrderId(2)}
PaymentIds == {"p1", "p2"}

\* crypto.createHmac('sha256', key).update(text).digest('hex'), as an ideal
\* MAC: the digest determines the key and the text and nothing else equals it
Hmac(key, text) == <<"hmac", key, text>>
RazorpaySecret == "RAZORPAY_SECRET"
\* `${razorpay_order_id}|${razorpay_payment_id}`
SignedText(razorpay_order_id, razorpay_payment_id) ==
    <<razorpay_order_id, razorpay_payment_id>>
\* signatures a client may submit: the right one of any order and payment, one
\* made with another key, none
Signatures ==
    {Hmac(RazorpaySecret, SignedText(o, p)) : o \in RzOrderInputs, p \in PaymentIds}
    \cup {Hmac("other", SignedText(RzOrderId(1), "p1")), <<>>}

\* POST /api/register (Razorpay), up to `await razorpay.orders.create`
RzRegister(body) ==
    /\ Razorpay
    /\ Receive
    /\ \/ /\ RequiredFieldMissing(body)
          /\ resp' = Reply("register", 400)
          /\ UNCHANGED inflight
       \/ /\ ~RequiredFieldMissing(body)
          /\ inflight' = Suspend([Request("register", "gateway", Undefined,
                                          NoOrder, 0) EXCEPT !.body = body])
          /\ resp' = NoResp
    /\ UNCHANGED <<variant, credentials, now, heap, registrations,
                   confirmedPayments, userMails, adminMails, rzVars>>

\* register after the await: the gateway created a new order, or the call threw
RzRegisterReturn(r, ok) ==
    /\ Razorpay
    /\ UNCHANGED requests
    /\ r \in BagToSet(inflight)
    /\ r.kind = "register"
    /\ inflight' = Resume(r)
    /\ IF ok
       THEN /\ gatewayOrders' = gatewayOrders + 1
            /\ userDataStore' = MapSet(userDataStore, RzOrderId(gatewayOrders + 1),
                                       r.body)
            /\ resp' = [Reply("register", 200) EXCEPT !.success = TRUE,
                                          !.orderId = RzOrderId(gatewayOrders + 1)]
       ELSE /\ resp' = Reply("register", 500)
            /\ UNCHANGED <<gatewayOrders, userDataStore>>
    /\ UNCHANGED <<variant, credentials, now, heap, registrations,
                   confirmedPayments, userMails, adminMails, successfulPayments,
                   matched>>

\* (mutant: any signature made with the secret passes, whatever it signs)
SignatureOfSecret(razorpay_order_id, razorpay_payment_id, razorpay_signature) ==
    /\ Len(razorpay_signature) = 3
    /\ razorpay_signature[2] = RazorpaySecret

\* `generated_signature !== razorpay_signature` is false
SignatureMatches(razorpay_order_id, razorpay_payment_id, razorpay_signature) ==
    Hmac(RazorpaySecret, SignedText(razorpay_order_id, razorpay_payment_id))
        = razorpay_signature

\* Map.prototype.delete
MapDelete(m, k) == SelectSeq(m, LAMBDA e : e.key # k)

\* POST /api/verify-payment, up to the first `await transporter.sendMail`
VerifyPayment(razorpay_payment_id, razorpay_order_id, razorpay_signature) ==
    /\ Razorpay
    /\ Receive
    /\ matched' = IF razorpay_signature = Hmac(RazorpaySecret,
                        <<razorpay_order_id, razorpay_payment_id>>)
                  THEN matched \cup {razorpay_payment_id} ELSE matched
    /\ \/ /\ ~SignatureMatches(razorpay_order_id, razorpay_payment_id,
                               razorpay_signature)
          /\ resp' = Reply("verify-payment", 400)
          /\ UNCHANGED <<successfulPayments, inflight>>
       \/ /\ SignatureMatches(razorpay_order_id, razorpay_payment_id,
                              razorpay_signature)
          /\ successfulPayments' = successfulPayments \cup {razorpay_payment_id}
          /\ IF MapHas(userDataStore, razorpay_order_id)
             THEN /\ inflight' = Suspend(
                        [Request("verify-payment", "mail-user", razorpay_payment_id,
                                 razorpay_order_id, RzOrderNo(razorpay_order_id))
                         EXCEPT !.body = MapGet(userDataStore, razorpay_order_id)])
                  /\ resp' = NoResp
             ELSE /\ resp' = [Reply("verify-payment", 200) EXCEPT !.success = TRUE]
                  /\ UNCHANGED inflight
    /\ UNCHANGED <<variant, credentials, now, heap, registrations,
                   confirmedPayments, userMails, adminMails, userDataStore,
                   gatewayOrders>>

\* verify-payment, `await transporter.sendMail(userMailOptions)`: sent, or it
\* threw: the catch logs, the stored data is deleted, the handler answers
VerifyUserMail(r, ok) ==
    /\ Razorpay
    /\ UNCHANGED requests
    /\ r \in BagToSet(inflight)
    /\ r.kind = "verify-payment"
    /\ r.pc = "mail-user"
    /\ IF ok
       THEN /\ userMails' = [userMails EXCEPT ![r.userData] = @ + 1]
            /\ inflight' = Resume(r) (+) SetToBag({[r EXCEPT !.pc = "mail-admin"]})
            /\ resp' = NoResp
            /\ UNCHANGED userDataStore
       ELSE /\ userDataStore' = MapDelete(userDataStore, r.orderId)
            /\ inflight' = Resume(r)
            /\ resp' = [Reply("verify-payment", 200) EXCEPT !.success = TRUE]
            /\ UNCHANGED userMails
    /\ UNCHANGED <<variant, credentials, now, heap, registrations,
                   confirmedPayments, adminMails, successfulPayments,
                   gatewayOrders, matched>>

\* verify-payment, `await transporter.sendMail(adminMailOptions)`, then
\* userDataStore.delete and the answer
VerifyAdminMail(r, ok) ==
    /\ Razorpay
    /\ UNCHANGED requests
    /\ r \in BagToSet(inflight)
    /\ r.kind = "verify-payment"
    /\ r.pc = "mail-admin"
    /\ adminMails' = IF ok THEN [adminMails EXCEPT ![r.userData] = @ + 1]
                     ELSE adminMails
    /\ userDataStore' = MapDelete(userDataStore, r.orderId)
    /\ inflight' = Resume(r)
    /\ resp' = [Reply("verify-payment", 200) EXCEPT !.success = TRUE]
    /\ UNCHANGED <<variant, credentials, now, heap, registrations,
                   confirmedPayments, userMails, successfulPayments,
                   gatewayOrders, matched>>

\* GET /api/check-payment (Razorpay): membership in successfulPayments
RzCheckPayment(payment_id) ==
    /\ Razorpay
    /\ Receive
    /\ resp' = [Reply("check-payment", 200) EXCEPT !.success = (payment_id \in successfulPayments)]
    /\ UNCHANGED <<variant, credentials, now, heap, registrations,
                   confirmedPayments, userMails, adminMails, inflight, rzVars>>

\* the same in the Razorpay variant (register, verify-payment)
RzPostHandlers == {"register", "verify-payment"}
RzHandlerThrows(kind) ==
    /\ Razorpay
    /\ Receive
    /\ resp' = Reply(kind, 500)
    /\ UNCHANGED <<variant, now, cfVars, userMails, adminMails, inflight, rzVars>>

NextRazorpay ==
    \/ \E kind \in RzPostHandlers : RzHandlerThrows(kind)
    \/ \E body \in RegisterBodies : RzRegister(body)
    \/ \E r \in BagToSet(inflight), ok \in BOOLEAN : RzRegisterReturn(r, ok)
    \/ \E p \in PaymentIds, o \in RzOrderInputs, sig \in Signatures :
          VerifyPayment(p, o, sig)
    \/ \E r \in BagToSet(inflight), ok \in BOOLEAN : VerifyUserMail(r, ok)
    \/ \E r \in BagToSet(inflight), ok \in BOOLEAN : VerifyAdminMail(r, ok)
    \/ \E payment_id \in PaymentIds \cup {Undefined} : RzCheckPayment(payment_id)

Init ==
    /\ \/ variant = "cashfree" /\ credentials \in BOOLEAN
       \/ variant = "razorpay" /\ credentials = TRUE
    /\ now = 0
    /\ heap = <<>>
    /\ registrations = <<>>
    /\ confirmedPayments = {}
    /\ userMails = [o \in 1..MaxRequests |-> 0]
    /\ adminMails = [o \in 1..MaxRequests |-> 0]
    /\ inflight = EmptyBag
    /\ resp = NoResp
    /\ requests = 0
    /\ successfulPayments = {}
    /\ userDataStore = <<>>
    /\ gatewayOrders = 0
    /\ matched = {}

Next == NextCashfree \/ NextRazorpay \/ Tick

Spec == Init /\ [][Next]_vars

\* an outbound call (gateway, mail relay) of a suspended request returns or
\* fails and its handler goes on
OutboundCallEnds ==
    \E r \in BagToSet(inflight), ok \in BOOLEAN :
        \/ CreatePaymentOrderReturn(r, ok)
        \/ \E st \in OrderStatuses, cf \in CfOrderIds :
              CheckPaymentStatusReturn(r, ok, st, cf)
        \/ SendUserMail(r, ok)
        \/ SendAdminMail(r, ok)
        \/ RzRegisterReturn(r, ok)
        \/ VerifyUserMail(r, ok)
        \/ VerifyAdminMail(r, ok)

\* the program under the assumption that every outbound call ends; the run
\* receives at most MaxRequests requests, so that this is the same as every
\* single call ending
FairSpec == Spec /\ WF_vars(OutboundCallEnds)

\* ================================================================== claims
\* reference ids of the registrations in the store, objects allocated so far
Stored == MapKeys(registrations)
Objects == 1..Len(heap)

\* C1: at-most-once notification. No registration ever gets more than one
\* registrant mail or more than one admin mail, whatever confirmation requests
\* are processed and however they interleave.
AtMostOnePairOfMails ==
    Cashfree => \A o \in Objects : userMails[o] <= 1 /\ adminMails[o] <= 1

\* C2: the confirmed set holds exactly the reference ids whose stored record
\* has paymentConfirmed = true.
ConfirmedSetMatchesFlags ==
    Cashfree =>
        confirmedPayments = {k \in Stored : Record(k).paymentConfirmed}

\* C3: once the record stored under an identifier has paymentConfirmed = true,
\* the record stored under it has paymentConfirmed = true after every step.
PaymentConfirmedNeverReverts ==
    [][\A k \in RefIds :
          (k \in Stored /\ Record(k).paymentConfirmed)
              => (k \in Stored' /\ Record(k)'.paymentConfirmed)]_vars

\* C4: for every stored record, transactionId is set if and only if
\* paymentConfirmed is true.
TransactionIdIffConfirmed ==
    Cashfree =>
        \A k \in Stored :
            (Record(k).transactionId # NoTxn) <=> Record(k).paymentConfirmed

\* C5: a successful register returns an identifier no earlier register
\* returned, the store then holds an unconfirmed record under it, and the
\* records of the registrations already there are left as they were.
\* (Cashfree: the identifiers returned so far are the keys of registrations,
\* which never loses a key; Razorpay: they are the orders 1..gatewayOrders.)
RegisterReturnsFreshId ==
    [][/\ (\E body \in RegisterBodies : Register(body)) /\ resp'.status = 200
          => /\ resp'.referenceId \notin Stored
             /\ resp'.referenceId \in Stored'
             /\ ~RecordIn(heap', registrations', resp'.referenceId).paymentConfirmed
             /\ \A k \in Stored : Record(k)' = Record(k)
       /\ (\E r \in BagToSet(inflight) : RzRegisterReturn(r, TRUE))
          => /\ RzOrderNo(resp'.orderId) > gatewayOrders
             /\ ~MapHas(userDataStore, resp'.orderId)
             /\ MapHas(userDataStore', resp'.orderId)
             /\ \A k \in MapKeys(userDataStore) :
                    MapGet(userDataStore', k) = MapGet(userDataStore, k)]_vars

\* a PAID report for order id o is processed in this step: the gateway's
\* answer to a status poll for o, or a webhook naming o
PaidReport(o) ==
    \/ \E r \in BagToSet(inflight), cf \in CfOrderIds :
          r.orderId = o /\ CheckPaymentStatusReturn(r, TRUE, "PAID", cf)
    \/ \E w \in WebhookBodies :
          w.order /\ w.order_id = o /\ w.order_status = "PAID" /\ CashfreeWebhook(w)

\* C6: when a PAID report (status poll or webhook) is processed for an order
\* id that is the orderId of the record of R1, then after the step the record
\* of R1 has paymentConfirmed = true and a transactionId, R1 is in the
\* confirmed set, and check-payment for a member of the set answers success.
PaidReportConfirms ==
    [][/\ \A R1 \in RefIds, o \in OrderIds :
            (R1 \in Stored /\ Record(R1).orderId = o /\ PaidReport(o))
            => /\ R1 \in Stored'
               /\ RecordIn(heap', registrations', R1).paymentConfirmed
               /\ RecordIn(heap', registrations', R1).transactionId # NoTxn
               /\ R1 \in confirmedPayments'
       /\ \A R1 \in RefIds :
            (R1 \in confirmedPayments /\ CheckPayment(R1)) => resp'.success]_vars

\* a record with an order was confirmed with the gateway's transaction id
PaidOrderConfirmed ==
    /\ Cashfree
    /\ \E k \in Stored :
          /\ Record(k).orderId # NoOrder
          /\ Record(k).paymentConfirmed
          /\ Record(k).transactionId \in {CfOrderId, Record(k).orderId}
          /\ k \in confirmedPayments

\* C7: the order id a successful create-payment-order returns for R1 is found
\* by the reverse scan as R1, and whatever the scan finds as R1 it finds as R1
\* after every later step (further create-payment-order requests included).
OrderIdLookupFindsRegistration ==
    [][/\ \A r \in BagToSet(inflight) :
            CreatePaymentOrderReturn(r, TRUE)
            => FindByOrderIdIn(heap', registrations', resp'.orderId)
                   = r.referenceId
       /\ \A k \in RefIds, o \in OrderIds :
            FindByOrderId(o) = k => FindByOrderId(o)' = k]_vars

\* C7 (amended): the order id a successful create-payment-order returns for
\* R1 is found as R1 right after the response, and in every state the scan
\* finds each stored record by the order id that record holds at that time.
StoredOrderIdFindsRegistration ==
    /\ [][\A r \in BagToSet(inflight) :
            CreatePaymentOrderReturn(r, TRUE)
            => FindByOrderIdIn(heap', registrations', resp'.orderId)
                   = r.referenceId]_vars
    /\ [](\A k \in Stored :
            Record(k).orderId # NoOrder => FindByOrderId(Record(k).orderId) = k)

\* create-payment-order has just returned an order id, and the scan finds a
\* stored registration by it
ReturnedOrderFound ==
    /\ resp.kind = "create-payment-order"
    /\ resp.status = 200
    /\ FindByOrderId(resp.orderId) \in Stored

\* the fields create-payment-order has no business with
Contact(rec) == <<rec.fullName, rec.email, rec.phone, rec.timestamp,
                  rec.paymentConfirmed>>

\* C8: a successful create-payment-order for R1 stores the order id it returns
\* in the record of R1, leaves fullName, email, phone, timestamp and
\* paymentConfirmed of that record as they were, returns an order id other
\* than the one the record held, and removes or changes no other registration.
CreateOrderSetsOrderIdOnly ==
    [][\A r \in BagToSet(inflight) :
          CreatePaymentOrderReturn(r, TRUE)
          => /\ r.referenceId \in Stored'
             /\ RecordIn(heap', registrations', r.referenceId).orderId
                    = resp'.orderId
             /\ Contact(RecordIn(heap', registrations', r.referenceId))
                    = Contact(Record(r.referenceId))
             /\ resp'.orderId # Record(r.referenceId).orderId
             /\ \A k \in Stored \ {r.referenceId} :
                    k \in Stored' /\ Record(k)' = Record(k)]_vars

\* C9: a verify-payment request whose signature is not the HMAC of
\* 'orderId|paymentId' under the secret is answered 400 and changes neither
\* successfulPayments nor userDataStore nor starts a mail; and every payment id
\* in successfulPayments came with a matching signature in some request.
BadSignatureRejected ==
    /\ [][\A p \in PaymentIds, o \in RzOrderInputs, sig \in Signatures :
            (VerifyPayment(p, o, sig) /\ sig # Hmac(RazorpaySecret, <<o, p>>))
            => /\ resp' = Reply("verify-payment", 400)
               /\ UNCHANGED <<successfulPayments, userDataStore, userMails,
                              adminMails, inflight>>]_vars
    /\ [](successfulPayments \subseteq matched)

\* a verify-payment for a stored order was refused
VerifyRefused ==
    /\ Razorpay
    /\ resp = Reply("verify-payment", 400)
    /\ userDataStore # <<>>

\* some required field of a register body is missing or empty
AnyFieldMissing(body) ==
    \E f \in {"fullName", "email", "phone"} : body[f] \in {Undefined, Empty}

\* C10: a register request with fullName, email or phone missing or empty is
\* answered 400, stores no record and (Razorpay) starts no gateway order.
MissingFieldRejected ==
    [][\A body \in RegisterBodies :
          (AnyFieldMissing(body) /\ (Register(body) \/ RzRegister(body)))
          => /\ resp' = Reply("register", 400)
             /\ UNCHANGED <<heap, registrations, userDataStore, gatewayOrders,
                            inflight>>]_vars

\* a register request was refused while a registration is in the store
RegisterRefused ==
    /\ resp = Reply("register", 400)
    /\ registrations # <<>> \/ userDataStore # <<>>

MailFailureKeepsConfirmation ==
    [][\A r \in BagToSet(inflight) :
          /\ (SendUserMail(r, FALSE) \/ SendAdminMail(r, FALSE))
             => /\ UNCHANGED <<heap, registrations, confirmedPayments>>
                /\ heap'[r.userData].paymentConfirmed
                /\ r.referenceId \in confirmedPayments'
                /\ resp'.kind = r.kind
                /\ resp'.status = 200
                /\ resp'.success
          /\ (VerifyUserMail(r, FALSE) \/ VerifyAdminMail(r, FALSE))
             => /\ UNCHANGED successfulPayments
                /\ r.referenceId \in successfulPayments'
                /\ resp'.kind = "verify-payment"
                /\ resp'.status = 200
                /\ resp'.success]_vars

\* a confirmation request was answered with success although the registrant's
\* mail of the confirmed registration was never sent
AnsweredWithoutMail ==
    /\ inflight = EmptyBag
    /\ resp.status = 200
    /\ resp.success
    /\ \/ /\ resp.kind \in {"check-payment-status", "cashfree-webhook",
                            "confirm-payment"}
          /\ \E k \in Stored :
                /\ Record(k).paymentConfirmed
                /\ k \in confirmedPayments
                /\ userMails[MapGet(registrations, k)] = 0
       \/ /\ resp.kind = "verify-payment"
          /\ successfulPayments # {}
          /\ gatewayOrders > 0
          /\ \A o \in 1..MaxRequests : userMails[o] = 0 /\ adminMails[o] = 0
          /\ userDataStore = <<>>

\* C13: check-payment answers 200 with success true exactly when the queried
\* identifier is in the confirmed set (confirmedPayments, or successfulPayments
\* in the Razorpay variant) at that time, success false for any other
\* identifier or none, and changes nothing but the response.
CheckPaymentIsMembership ==
    [][/\ \A id \in RefInputs :
            CheckPayment(id)
            => /\ resp'.kind = "check-payment"
               /\ resp'.status = 200
               /\ resp'.success <=> (id \in confirmedPayments)
               /\ (id \notin Stored \/ id = Undefined) => ~resp'.success
               /\ UNCHANGED <<cfVars, userMails, adminMails, inflight, rzVars>>
       /\ \A id \in PaymentIds \cup {Undefined} :
            RzCheckPayment(id)
            => /\ resp'.kind = "check-payment"
               /\ resp'.status = 200
               /\ resp'.success <=> (id \in successfulPayments)
               /\ id = Undefined => ~resp'.success
               /\ UNCHANGED <<cfVars, userMails, adminMails, inflight, rzVars>>]_vars

\* check-payment has answered success for a confirmed identifier while another
\* registration is stored unconfirmed
CheckPaymentSaidYes ==
    /\ resp.kind = "check-payment"
    /\ resp.success
    /\ \/ /\ confirmedPayments # {}
          /\ \E k \in Stored : k \notin confirmedPayments
       \/ successfulPayments # {}

\* C14: a create-payment-order, check-payment-status or confirm-payment request
\* with a required field missing is answered 400, one with a reference id that
\* is not in the store is answered 404, and every such request answered 400 or
\* 404 leaves the records and the confirmed set as they were, suspends at no
\* gateway call and sends no mail.
RefusedRequestTouchesNothing ==
    [][/\ \A referenceId \in RefInputs :
            CreatePaymentOrder(referenceId)
            => /\ Falsy(referenceId) => resp'.status = 400
               /\ (~Falsy(referenceId) /\ referenceId \notin Stored)
                      => resp'.status = 404
               /\ resp'.status \in {400, 404}
                      => UNCHANGED <<cfVars, inflight, userMails, adminMails>>
       /\ \A orderId \in OrderInputs :
            CheckPaymentStatus(orderId)
            => /\ orderId = NoOrder => resp'.status = 400
               /\ resp'.status \in {400, 404}
                      => UNCHANGED <<cfVars, inflight, userMails, adminMails>>
       /\ \A referenceId \in RefInputs, transactionId \in {NoTxn, ClientTxn} :
            ConfirmPayment(referenceId, transactionId)
            => /\ (Falsy(referenceId) \/ transactionId = NoTxn)
                      => resp'.status = 400
               /\ (~Falsy(referenceId) /\ transactionId # NoTxn
                        /\ referenceId \notin Stored)
                      => resp'.status = 404
               /\ resp'.status \in {400, 404}
                      => UNCHANGED <<cfVars, inflight, userMails, adminMails>>]_vars

\* a request was refused with 400 or 404 while a registration is stored and
\* another request is suspended at an await
RequestRefused ==
    /\ resp.kind \in {"create-payment-order", "check-payment-status",
                      "confirm-payment"}
    /\ resp.status \in {400, 404}
    /\ registrations # <<>>
    /\ inflight # EmptyBag

\* C15: a create-payment-order request for a stored R1 is answered 500 when
\* the gateway credentials are absent or when the gateway call fails, and in
\* both cases the records (orderId included) stay as they were; an object's
\* orderId changes only in the step in which a gateway call returns success.
FailedOrderKeepsRecord ==
    [][/\ \A referenceId \in RefIds :
            (CreatePaymentOrder(referenceId) /\ referenceId \in Stored)
            => /\ ~credentials => resp'.status = 500
               /\ UNCHANGED <<heap, registrations, confirmedPayments>>
       /\ \A r \in BagToSet(inflight) :
            CreatePaymentOrderReturn(r, FALSE)
            => /\ resp' = Reply("create-payment-order", 500)
               /\ UNCHANGED <<heap, registrations, confirmedPayments>>
       /\ (\E o \in Objects : heap'[o].orderId # heap[o].orderId)
            => \E r \in BagToSet(inflight) : CreatePaymentOrderReturn(r, TRUE)]_vars

\* the gateway call of a create-payment-order failed for a registration that
\* already has an order
SecondOrderFailed ==
    /\ credentials
    /\ resp = Reply("create-payment-order", 500)
    /\ \E k \in Stored : Record(k).orderId # NoOrder

\* C16: a confirm-payment request with a transactionId for a stored R1 applies
\* the confirmation transition whatever the state of R1 (order created or not,
\* confirmed or not): after the step the record of R1 has paymentConfirmed =
\* true and the submitted transactionId, R1 is in the confirmed set and the
\* mails of R1 are started.
ConfirmPaymentAlwaysConfirms ==
    [][\A R1 \in RefIds :
          (R1 \in Stored /\ ConfirmPayment(R1, ClientTxn))
          => /\ R1 \in Stored'
             /\ RecordIn(heap', registrations', R1).paymentConfirmed
             /\ RecordIn(heap', registrations', R1).transactionId = ClientTxn
             /\ R1 \in confirmedPayments'
             /\ \E q \in BagToSet(inflight') :
                   /\ q.kind = "confirm-payment"
                   /\ q.pc = "mail-user"
                   /\ q.referenceId = R1]_vars

\* a registration for which no order was ever created is confirmed with the
\* client's transaction id
ConfirmedWithoutOrder ==
    /\ Cashfree
    /\ \E k \in Stored :
          /\ Record(k).orderId = NoOrder
          /\ Record(k).paymentConfirmed
          /\ Record(k).transactionId = ClientTxn
          /\ k \in confirmedPayments

\* C17: in the Razorpay variant no order ever gets more than one registrant
\* mail or more than one admin mail, however verify-payment requests with
\* valid signatures for it interleave.
OrderMailedAtMostOnce ==
    Razorpay =>
        \A n \in 1..MaxRequests : userMails[n] <= 1 /\ adminMails[n] <= 1

\* C18: a confirmation mail is dispatched only for an identifier that is
\* confirmed: in the state in which a mail of registration R1 has just been
\* accepted, R1 is in confirmedPayments and the record of R1 has
\* paymentConfirmed = true; in the Razorpay variant the payment id of the
\* request is in successfulPayments.
MailOnlyForConfirmed ==
    [][\A r \in BagToSet(inflight) :
          /\ (SendUserMail(r, TRUE) \/ SendAdminMail(r, TRUE))
             => /\ r.referenceId \in confirmedPayments'
                /\ r.referenceId \in Stored'
                /\ RecordIn(heap', registrations', r.referenceId).paymentConfirmed
          /\ (VerifyUserMail(r, TRUE) \/ VerifyAdminMail(r, TRUE))
             => r.referenceId \in successfulPayments']_vars

ConfirmedSetOnlyGrows ==
    [][/\ confirmedPayments \subseteq confirmedPayments'
       /\ successfulPayments \subseteq successfulPayments'
       /\ \A id \in RefInputs :
            (CheckPayment(id) /\ resp'.success) => id \in confirmedPayments'
       /\ \A id \in RefInputs :
            (CheckPayment(id) /\ id \in confirmedPayments) => resp'.success
       /\ \A id \in PaymentIds \cup {Undefined} :
            (RzCheckPayment(id) /\ resp'.success) => id \in successfulPayments'
       /\ \A id \in PaymentIds \cup {Undefined} :
            (RzCheckPayment(id) /\ id \in successfulPayments) => resp'.success]_vars

\* check-payment answers success as the last request of a run, after the
\* confirming request has been answered
StillConfirmedAtTheEnd ==
    /\ resp.kind = "check-payment"
    /\ resp.success
    /\ requests = MaxRequests
    /\ inflight = EmptyBag

\* requests answered so far: those received and no longer suspended
Answered == requests - BagCardinality(inflight)

\* C21: every request gets exactly one response, provided every outbound call
\* ends. A step answers exactly one request if it writes a response and none
\* if it writes no response; a handler that throws answers 500 (the webhook
\* 200); and whenever requests are suspended at an outbound call, a state
\* follows in which none is suspended and all requests received are answered.
EveryRequestAnsweredOnce ==
    /\ [][/\ Answered' = Answered + (IF resp' # NoResp THEN 1 ELSE 0)
          /\ \A kind \in PostHandlers :
                HandlerThrows(kind) => resp'.status = 500
          /\ \A kind \in RzPostHandlers :
                RzHandlerThrows(kind) => resp'.status = 500
          /\ \A r \in BagToSet(inflight) :
                (\/ CreatePaymentOrderReturn(r, FALSE)
                 \/ \E st \in OrderStatuses, cf \in CfOrderIds :
                       CheckPaymentStatusReturn(r, FALSE, st, cf)
                 \/ RzRegisterReturn(r, FALSE))
                => resp'.kind = r.kind /\ resp'.status = 500
          /\ \A w \in WebhookBodies :
                (CashfreeWebhook(w) /\ ~w.body) => resp'.status = 200]_vars
    /\ (inflight # EmptyBag) ~> (inflight = EmptyBag /\ Answered = requests)

\* all the requests of a run are answered, one of them after both of its
\* mails were accepted
AllAnsweredAfterMails ==
    /\ requests = MaxRequests
    /\ inflight = EmptyBag
    /\ resp.status = 200
    /\ \E n \in 1..MaxRequests : userMails[n] = 1 /\ adminMails[n] = 1
=============================================================================
